---- MODULE Spec2Model ----
(***************************************************************************)
(* Multi-round auction engine (AuctionService, UserService, roundProcessor) *)
(* as a state machine over one auction aggregate, the user ledger and the   *)
(* transaction journal.  Times are milliseconds, as Date.getTime().         *)
(***************************************************************************)
EXTENDS Integers, Sequences, FiniteSets, Bags, TLC

VARIABLES now, auction, users, journal, calls, fleet

vars == <<now, auction, users, journal, calls, fleet>>

-----------------------------------------------------------------------------
(* Bounds of the model *)

\* number of clock advances after the auction has started
MaxTicks == 4
\* number of clock advances under the fair scheduler: two rounds, each at most
\* twice the round duration of 10 s, at 5 s a tick
MaxLiveTicks == 8
\* number of admitted bids (Bid records written by placeBid)
MaxBids == 3
\* largest totalItems and itemsPerRound of the auctions planned from itemsPerRound
MaxItems == 3
\* number of clock advances of those auctions: three rounds of 10 s at 5 s a tick
MaxPlanTicks == 6
\* number of bids admitted in those auctions
MaxPlanBids == 2
\* number of one-second clock advances of the auction of scenario S3: the round
\* of 10 s extended by the bid at second 9 ends at second 14
MaxSnipeSteps == 14
\* number of bids admitted in that auction
MaxSnipeBids == 2
\* number of clock advances while the round processor works through several
\* auctions: two rounds of 10 s at 5 s a tick
MaxFleetTicks == 4
\* number of 'refund' transactions in the journal once a close has failed
MaxRefundsAtFault == 2
\* number of deposits
MaxDeposits == 1

(* Program constants *)

\* seconds to milliseconds (roundDuration * 1000, antiSnipingWindow * 1000)
SecMs == 1000
\* the round processor's cadence, '*/5 * * * * *', in milliseconds
TickMs == 5000
\* balance of a user created by getOrCreateUser
InitialBalance == 1000
\* createAuction: data.antiSnipingWindow || 10
DefaultAntiSnipingWindow == 10

(* Inputs *)

UserIds == {"u1", "u2"}
\* 0 is below minBid; 400 + 600 exhausts a fresh balance; 600 + 600 exceeds it
Amounts == {0, 400, 600}
DepositAmounts == {200}
\* the users who deposit
DepositUserIds == {"u1"}

\* the requests that may be in flight at the same time
CallIds == {"c1", "c2"}
\* the user whose requests overlap, and the amounts bid: 400 + 600 is the
\* whole of a fresh balance, 600 + 600 is more
OverlapUserIds == {"u1"}
OverlapAmounts == {400, 600}

\* CreateAuctionDto values; winnersPerRound <<>> stands for an absent array.
\* The first plans two rounds of one winner (itemsPerRound is then only read by
\* fixProblematicAuctions); the second plans one round of two winners and asks
\* for no anti-sniping window.
Dtos ==
  { [totalItems |-> 2, itemsPerRound |-> 2, winnersPerRound |-> <<1, 1>>,
     roundDuration |-> 10, minBid |-> 1, antiSnipingWindow |-> 10],
    [totalItems |-> 2, itemsPerRound |-> 2, winnersPerRound |-> <<>>,
     roundDuration |-> 10, minBid |-> 1, antiSnipingWindow |-> 0] }

\* the auctions created for the round processor to find, in the order
\* Auction.find returns them
AuctionIds == <<"a1", "a2">>

\* CreateAuctionDto values without winnersPerRound: every totalItems and
\* itemsPerRound from 1 to MaxItems
PlanDtos ==
  { [totalItems |-> n, itemsPerRound |-> k, winnersPerRound |-> <<>>,
     roundDuration |-> 10, minBid |-> 1, antiSnipingWindow |-> 0] :
    n \in 1..MaxItems, k \in 1..MaxItems }

\* the amount bid in those auctions
PlanAmounts == {400}

\* the CreateAuctionDto of scenarios S3 and S4: one item, one round of 10 s,
\* an anti-sniping window of 5 s; the same with a window of 8 s, with which two
\* bids take a round to its limit of 20 s; and the amounts bid
SnipeDtos ==
  { [totalItems |-> 1, itemsPerRound |-> 1, winnersPerRound |-> <<1>>,
     roundDuration |-> 10, minBid |-> 1, antiSnipingWindow |-> w] : w \in {5, 8} }
SnipeAmounts == {10, 20}

-----------------------------------------------------------------------------
(* Helpers for JavaScript idioms *)

Min(a, b) == IF a <= b THEN a ELSE b

\* Math.ceil(a / b) for positive integers
CeilDiv(a, b) == (a + b - 1) \div b

\* x || y on numbers: 0 (and undefined, modelled as 0) is falsy
OrElse(x, y) == IF x = 0 THEN y ELSE x

\* arr[i] with a 0-based index; undefined (0) outside the array
At0(arr, i) == IF i + 1 \in DOMAIN arr THEN arr[i + 1] ELSE 0

\* arr.slice(0, n)
Slice0(arr, n) == SubSeq(arr, 1, Min(n, Len(arr)))

Front(s) == SubSeq(s, 1, Len(s) - 1)

Last(s) == s[Len(s)]

RECURSIVE SumAmounts(_)
SumAmounts(s) == IF s = <<>> THEN 0 ELSE Head(s).amount + SumAmounts(Tail(s))

-----------------------------------------------------------------------------
(* Records *)

NoAuction ==
  [status |-> "none", totalItems |-> 0, itemsPerRound |-> 0,
   winnersPerRound |-> <<>>, roundDuration |-> 0, minBid |-> 0,
   antiSnipingWindow |-> 0, currentRound |-> 0, rounds |-> <<>>, bids |-> <<>>]

\* a request slot with no request in flight
Idle ==
  [op |-> "idle", pc |-> "idle", userId |-> "", amount |-> 0,
   base |-> NoAuction, t |-> 0, bal |-> 0]

\* the auctions collection as the round processor sees it, and the position of
\* the cron callback: idle, or in its loop over the auctions it found (found,
\* loaded at time t0; queue, those not yet examined).  attempted and failed are
\* the auctions for which this run called completeRound and for which the call
\* threw; retry, those for which it threw in the run before.
NoFleet ==
  [auctions |-> <<>>, pc |-> "idle", found |-> <<>>,
   queue |-> <<>>, t0 |-> 0, attempted |-> {}, failed |-> {}, retry |-> {}]

Outcome(a, us, jr, err) == [auction |-> a, users |-> us, journal |-> jr, err |-> err]

Tx(userId, type, amount, roundNumber) ==
  [userId |-> userId, type |-> type, amount |-> amount, roundNumber |-> roundNumber]

\* Transaction.create: the transactions collection is a bag of documents
Journal(jr, tx) == jr (+) SetToBag({tx})

-----------------------------------------------------------------------------
(* UserService *)

\* getOrCreateUser: a user that does not exist is created with balance 1000
getOrCreateUser(us, userId) ==
  IF userId \in DOMAIN us THEN us ELSE us @@ (userId :> InitialBalance)

\* updateBalance: [ok, users]; fails on a missing user and on an over-debit
updateBalance(us, userId, amount, type) ==
  IF userId \notin DOMAIN us THEN [ok |-> FALSE, users |-> us]
  ELSE IF type = "subtract" /\ us[userId] < amount THEN [ok |-> FALSE, users |-> us]
  ELSE [ok |-> TRUE,
        users |-> [us EXCEPT ![userId] =
                     IF type = "add" THEN @ + amount ELSE @ - amount]]

-----------------------------------------------------------------------------
(* The slot plan of startAuction and completeRound *)

\* PlanLoop with itemsPerRound pushed for every round, the last one included
PlanLoopNoRemainder(acc, remainingItems, itemsPerRound, maxRounds) ==
  [i \in 1..maxRounds |-> itemsPerRound]

RECURSIVE PlanLoop(_, _, _, _)
PlanLoop(acc, remainingItems, itemsPerRound, maxRounds) ==
  IF Len(acc) >= maxRounds THEN acc
  ELSE PlanLoop(Append(acc, Min(itemsPerRound, remainingItems)),
                remainingItems - Min(itemsPerRound, remainingItems),
                itemsPerRound, maxRounds)

\* MaxRounds with every auction planned as a single round
MaxRoundsSingle(a) == 1

\* MaxRounds with one round more than the plan
MaxRoundsPlusOne(a) ==
  1 + (IF Len(a.winnersPerRound) > 0 THEN Len(a.winnersPerRound)
       ELSE CeilDiv(a.totalItems, a.itemsPerRound))

MaxRounds(a) ==
  IF Len(a.winnersPerRound) > 0 THEN Len(a.winnersPerRound)
  ELSE CeilDiv(a.totalItems, a.itemsPerRound)

WinnersPerRound(a) ==
  IF Len(a.winnersPerRound) > 0 THEN a.winnersPerRound
  ELSE PlanLoop(<<>>, a.totalItems, a.itemsPerRound, MaxRounds(a))

-----------------------------------------------------------------------------
(* The ranking shared by placeBid, completeRound and getRoundLeaderboard *)

\* auction.bids.filter(b => b.roundNumber === r)
RoundBids(bids, r) == SelectSeq(bids, LAMBDA b : b.roundNumber = r)

IndexOfUser(s, userId) ==
  IF \E i \in DOMAIN s : s[i].userId = userId
  THEN CHOOSE i \in DOMAIN s :
         s[i].userId = userId /\ \A j \in 1..(i - 1) : s[j].userId # userId
  ELSE 0

\* UserBidsLoop with the stored bid replaced by one of the same amount too
RECURSIVE UserBidsLoopLast(_, _)
UserBidsLoopLast(roundBids, userBids) ==
  IF roundBids = <<>> THEN userBids
  ELSE LET bid == Head(roundBids)
           i == IndexOfUser(userBids, bid.userId)
       IN UserBidsLoopLast(Tail(roundBids),
            IF i = 0 THEN Append(userBids, bid)
            ELSE IF bid.amount >= userBids[i].amount
                 THEN [userBids EXCEPT ![i] = bid]
                 ELSE userBids)

\* the Map<userId, bid> loop; the result is the Map's values in insertion order
RECURSIVE UserBidsLoop(_, _)
UserBidsLoop(roundBids, userBids) ==
  IF roundBids = <<>> THEN userBids
  ELSE LET bid == Head(roundBids)
           i == IndexOfUser(userBids, bid.userId)
       IN UserBidsLoop(Tail(roundBids),
            IF i = 0 THEN Append(userBids, bid)
            ELSE IF bid.amount > userBids[i].amount
                 THEN [userBids EXCEPT ![i] = bid]
                 ELSE userBids)

UserBids(roundBids) == UserBidsLoop(roundBids, <<>>)

\* CompareBids with the amounts compared the wrong way round
CompareBidsAscending(a, b) ==
  IF b.amount # a.amount THEN a.amount - b.amount
  ELSE a.timestamp - b.timestamp

\* the comparator: amount descending, then timestamp ascending
CompareBids(a, b) ==
  IF b.amount # a.amount THEN b.amount - a.amount
  ELSE a.timestamp - b.timestamp

\* Array.prototype.sort is stable: an element goes after those it does not precede
RECURSIVE InsertSorted(_, _)
InsertSorted(s, b) ==
  IF s = <<>> THEN <<b>>
  ELSE IF CompareBids(Head(s), b) <= 0
       THEN <<Head(s)>> \o InsertSorted(Tail(s), b)
       ELSE <<b>> \o s

RECURSIVE SortBids(_)
SortBids(s) ==
  IF s = <<>> THEN <<>> ELSE InsertSorted(SortBids(Front(s)), Last(s))

\* sortedBids of one round
Leaderboard(bids, r) == SortBids(UserBids(RoundBids(bids, r)))

\* Winners without the cut at winningSlots
WinnersNoCut(sortedBids, winningSlots) ==
  [i \in 1..Len(sortedBids) |->
     [userId |-> sortedBids[i].userId, bidAmount |-> sortedBids[i].amount,
      position |-> i]]

\* sortedBids.slice(0, winningSlots).map(...)
Winners(sortedBids, winningSlots) ==
  LET top == Slice0(sortedBids, winningSlots)
  IN [i \in 1..Len(top) |->
        [userId |-> top[i].userId, bidAmount |-> top[i].amount, position |-> i]]

WinnerUserIds(winners) == {winners[i].userId : i \in DOMAIN winners}

RECURSIVE TotalWinners(_)
TotalWinners(rounds) ==
  IF rounds = <<>> THEN 0 ELSE Len(Head(rounds).winners) + TotalWinners(Tail(rounds))

AllWinnerUserIds(rounds) ==
  UNION {WinnerUserIds(rounds[i].winners) : i \in DOMAIN rounds}

-----------------------------------------------------------------------------
(* AuctionService.createAuction and startAuction *)

createAuction(data) ==
  [status |-> "draft",
   totalItems |-> data.totalItems,
   itemsPerRound |-> data.itemsPerRound,
   winnersPerRound |-> data.winnersPerRound,
   roundDuration |-> data.roundDuration,
   minBid |-> data.minBid,
   antiSnipingWindow |-> OrElse(data.antiSnipingWindow, DefaultAntiSnipingWindow),
   currentRound |-> 1,
   rounds |-> <<>>,
   bids |-> <<>>]

\* NewRound with roundDuration added as milliseconds
NewRoundMillis(roundNumber, t, roundDuration, winningSlots) ==
  [roundNumber |-> roundNumber,
   startTime |-> t,
   endTime |-> t + roundDuration,
   status |-> "active",
   winningSlots |-> winningSlots,
   winners |-> <<>>,
   totalBids |-> 0]

\* NewRound with the round left pending
NewRoundPending(roundNumber, t, roundDuration, winningSlots) ==
  [roundNumber |-> roundNumber,
   startTime |-> t,
   endTime |-> t + roundDuration * SecMs,
   status |-> "pending",
   winningSlots |-> winningSlots,
   winners |-> <<>>,
   totalBids |-> 0]

NewRound(roundNumber, t, roundDuration, winningSlots) ==
  [roundNumber |-> roundNumber,
   startTime |-> t,
   endTime |-> t + roundDuration * SecMs,
   status |-> "active",
   winningSlots |-> winningSlots,
   winners |-> <<>>,
   totalBids |-> 0]

\* startAuction with the status not checked
startAuctionAnyStatus(a, us, jr, t) ==
  IF a.status = "none" THEN Outcome(a, us, jr, "Auction not found")
  ELSE Outcome([a EXCEPT !.status = "active",
                         !.currentRound = 1,
                         !.rounds = <<NewRound(1, t, a.roundDuration,
                                       OrElse(At0(WinnersPerRound(a), 0),
                                              a.itemsPerRound))>>],
               us, jr, "none")

startAuction(a, us, jr, t) ==
  IF a.status = "none" THEN Outcome(a, us, jr, "Auction not found")
  ELSE IF a.status # "draft" THEN Outcome(a, us, jr, "Auction cannot be started")
  ELSE LET winnersPerRound == WinnersPerRound(a)
           firstRoundWinningSlots == OrElse(At0(winnersPerRound, 0), a.itemsPerRound)
       IN Outcome([a EXCEPT !.status = "active",
                            !.currentRound = 1,
                            !.rounds = <<NewRound(1, t, a.roundDuration,
                                                  firstRoundWinningSlots)>>],
                  us, jr, "none")

-----------------------------------------------------------------------------
(* AuctionService.placeBid *)

\* AntiSniping without the limit of twice the round duration
AntiSnipingNoCap(a, bids1, round1, t, userId) ==
  LET timeUntilEnd == round1.endTime - t
      antiSnipingMs == a.antiSnipingWindow * SecMs
      winningSlots == OrElse(round1.winningSlots, a.itemsPerRound)
      sortedBids == Leaderboard(bids1, a.currentRound)
      userTopBidIndex == IndexOfUser(sortedBids, userId) - 1
  IN IF /\ timeUntilEnd <= antiSnipingMs
        /\ userTopBidIndex >= 0 /\ userTopBidIndex < winningSlots
     THEN [round1 EXCEPT !.endTime = t + antiSnipingMs]
     ELSE round1

\* AntiSniping with the distance to the deadline not tested: every bid in the
\* top moves the deadline to now + window
AntiSnipingAnyTime(a, bids1, round1, t, userId) ==
  LET antiSnipingMs == a.antiSnipingWindow * SecMs
      winningSlots == OrElse(round1.winningSlots, a.itemsPerRound)
      sortedBids == Leaderboard(bids1, a.currentRound)
      userTopBidIndex == IndexOfUser(sortedBids, userId) - 1
      maxEndTime == round1.startTime + a.roundDuration * 2 * SecMs
      newEndTime == t + antiSnipingMs
  IN IF /\ userTopBidIndex >= 0 /\ userTopBidIndex < winningSlots
        /\ newEndTime <= maxEndTime
     THEN [round1 EXCEPT !.endTime = newEndTime]
     ELSE round1

\* AntiSniping with every late bid extending the round, in the top or not
AntiSnipingAnyBid(a, bids1, round1, t, userId) ==
  LET timeUntilEnd == round1.endTime - t
      antiSnipingMs == a.antiSnipingWindow * SecMs
      maxEndTime == round1.startTime + a.roundDuration * 2 * SecMs
      newEndTime == t + antiSnipingMs
  IN IF timeUntilEnd <= antiSnipingMs /\ newEndTime <= maxEndTime
     THEN [round1 EXCEPT !.endTime = newEndTime]
     ELSE round1

\* the anti-sniping block: the current round after the bid has been pushed
AntiSniping(a, bids1, round1, t, userId) ==
  LET timeUntilEnd == round1.endTime - t
      antiSnipingMs == a.antiSnipingWindow * SecMs
      winningSlots == OrElse(round1.winningSlots, a.itemsPerRound)
      sortedBids == Leaderboard(bids1, a.currentRound)
      userTopBidIndex == IndexOfUser(sortedBids, userId) - 1
      maxEndTime == round1.startTime + a.roundDuration * 2 * SecMs
      newEndTime == t + antiSnipingMs
  IN IF /\ timeUntilEnd <= antiSnipingMs
        /\ userTopBidIndex >= 0 /\ userTopBidIndex < winningSlots
        /\ newEndTime <= maxEndTime
     THEN [round1 EXCEPT !.endTime = newEndTime]
     ELSE round1

\* BidBelowMin with the minimum not checked
BidNeverBelowMin(a, amount) == FALSE

\* amount < auction.minBid
BidBelowMin(a, amount) == amount < a.minBid

\* !user || user.balance < amount
InsufficientBalance(us, userId, amount) ==
  userId \notin DOMAIN us \/ us[userId] < amount

\* !currentRound || currentRound.status !== 'active', negated
CurrentRoundActive(a) ==
  /\ a.currentRound \in DOMAIN a.rounds
  /\ a.rounds[a.currentRound].status = "active"

\* RoundHasEnded with a bid at the deadline itself let through
RoundHasEndedStrict(t, endTime) == t > endTime

\* now >= currentRound.endTime
RoundHasEnded(t, endTime) == t >= endTime

\* the preconditions of placeBid, in the order of the code: the message of the
\* first one that fails, "none" when the bid is admitted
PlaceBidError(a, us, t, userId, amount) ==
  IF a.status = "none" THEN "Auction not found"
  ELSE IF a.status # "active" THEN "Auction is not active"
  ELSE IF BidBelowMin(a, amount) THEN "Bid must be at least minBid"
  ELSE IF InsufficientBalance(us, userId, amount) THEN "Insufficient balance"
  ELSE IF ~CurrentRoundActive(a) THEN "Current round is not active"
  ELSE IF RoundHasEnded(t, a.rounds[a.currentRound].endTime) THEN "Round has ended"
  ELSE "none"

\* fault names the step that throws after the preconditions have passed:
\* "none", "debit" (updateBalance), "journal" (Transaction.create), "save"
\* (auction.save).  What a step has written before the throw stays written.
placeBid(a, us, jr, t, userId, amount, fault) ==
  IF PlaceBidError(a, us, t, userId, amount) # "none"
  THEN Outcome(a, us, jr, PlaceBidError(a, us, t, userId, amount))
  ELSE LET bid == [userId |-> userId, amount |-> amount, timestamp |-> t,
                   roundNumber |-> a.currentRound]
           bids1 == Append(a.bids, bid)
           round1 == [a.rounds[a.currentRound] EXCEPT !.totalBids = @ + 1]
           round2 == AntiSniping(a, bids1, round1, t, userId)
           a1 == [a EXCEPT !.bids = bids1, !.rounds[a.currentRound] = round2]
           debit == updateBalance(us, userId, amount, "subtract")
           jr1 == Journal(jr, Tx(userId, "bid", amount, a.currentRound))
       IN IF fault = "debit" THEN Outcome(a, us, jr, "Internal")
          ELSE IF ~debit.ok THEN Outcome(a, us, jr, "Insufficient balance")
          ELSE IF fault = "journal" THEN Outcome(a, debit.users, jr, "Internal")
          ELSE IF fault = "save" THEN Outcome(a, debit.users, jr1, "Internal")
          ELSE Outcome(a1, debit.users, jr1, "none")

-----------------------------------------------------------------------------
(* AuctionService.completeRound *)

\* updateBalance(userId, amount, 'add') and Transaction.create({type: 'refund'})
\* for every bid of toRefund, in order
RECURSIVE RefundLoop(_, _, _)
RefundLoop(toRefund, us, jr) ==
  IF toRefund = <<>> THEN [users |-> us, journal |-> jr]
  ELSE LET bid == Head(toRefund)
       IN RefundLoop(Tail(toRefund),
                     updateBalance(us, bid.userId, bid.amount, "add").users,
                     Journal(jr, Tx(bid.userId, "refund", bid.amount, bid.roundNumber)))

\* winnerMaxBids.get(userId); undefined (0) for a user who is no winner
WinnerMaxBid(winners, userId) ==
  IF \E i \in DOMAIN winners : winners[i].userId = userId
  THEN winners[CHOOSE i \in DOMAIN winners : winners[i].userId = userId].bidAmount
  ELSE 0

\* the additional bids of the round's winners: the bids the first loop refunds
WinnerRefunds(roundBids, winners) ==
  SelectSeq(roundBids, LAMBDA bid :
    /\ bid.userId \in WinnerUserIds(winners)
    /\ WinnerMaxBid(winners, bid.userId) # 0
    /\ bid.amount < WinnerMaxBid(winners, bid.userId))

\* CarryForward with the copies left in the round that was closed
CarryForwardSameRound(roundBids, winners, nextRoundNumber) ==
  SelectSeq(roundBids, LAMBDA bid : bid.userId \notin WinnerUserIds(winners))

\* the bids carried into the next round: those of the users who did not win
CarryForward(roundBids, winners, nextRoundNumber) ==
  LET losing == SelectSeq(roundBids, LAMBDA bid :
                  bid.userId \notin WinnerUserIds(winners))
  IN [i \in 1..Len(losing) |->
        [userId |-> losing[i].userId, amount |-> losing[i].amount,
         timestamp |-> losing[i].timestamp, roundNumber |-> nextRoundNumber]]

\* totalBids of the round appended by completeRound: auction.rounds.push casts
\* the plain object into a new subdocument, so the later
\* nextRound.totalBids += 1 changes the plain object and not the stored round
NextRoundTotalBids(carried) == 0

\* the bids the finalize loop refunds: every record of auction.bids whose user
\* is in no round's winners
FinalRefunds(bids, rounds) ==
  SelectSeq(bids, LAMBDA bid : bid.userId \notin AllWinnerUserIds(rounds))

\* RoundNotEndedYet with a close let through one tick before the deadline
RoundNotEndedYetEarly(t, endTime) == t + TickMs < endTime

\* RoundNotEndedYet with the deadline not checked
RoundNeverTooEarly(t, endTime) == FALSE

\* now < currentRound.endTime
RoundNotEndedYet(t, endTime) == t < endTime

completeRound(a, us, jr, t) ==
  IF a.status = "none" THEN Outcome(a, us, jr, "Auction not found")
  ELSE IF ~CurrentRoundActive(a)
       THEN Outcome(a, us, jr, "Current round is not active")
  ELSE IF RoundNotEndedYet(t, a.rounds[a.currentRound].endTime)
       THEN Outcome(a, us, jr, "Round has not ended yet")
  ELSE LET currentRound == a.rounds[a.currentRound]
           roundBids == RoundBids(a.bids, a.currentRound)
           sortedBids == SortBids(UserBids(roundBids))
           winningSlots == OrElse(currentRound.winningSlots, a.itemsPerRound)
           winners == Winners(sortedBids, winningSlots)
           led1 == RefundLoop(WinnerRefunds(roundBids, winners), us, jr)
           rounds1 == [a.rounds EXCEPT ![a.currentRound] =
                         [@ EXCEPT !.status = "completed", !.winners = winners]]
           totalWinners == TotalWinners(rounds1)
           maxRounds == MaxRounds(a)
           winnersPerRound == WinnersPerRound(a)
           nextRoundNumber == a.currentRound + 1
           nextRoundWinningSlots ==
             OrElse(At0(winnersPerRound, nextRoundNumber - 1),
                    Min(a.itemsPerRound, a.totalItems - totalWinners))
           carried == CarryForward(roundBids, winners, nextRoundNumber)
           nextRound ==
             [NewRound(nextRoundNumber, t, a.roundDuration, nextRoundWinningSlots)
                EXCEPT !.totalBids = NextRoundTotalBids(carried)]
           led2 == RefundLoop(FinalRefunds(a.bids, rounds1), led1.users, led1.journal)
       IN IF a.currentRound > maxRounds
          THEN Outcome([a EXCEPT !.rounds = rounds1, !.status = "completed"],
                       led1.users, led1.journal, "none")
          ELSE IF totalWinners < a.totalItems /\ a.currentRound < maxRounds
          THEN Outcome([a EXCEPT !.rounds = Append(rounds1, nextRound),
                                 !.currentRound = nextRoundNumber,
                                 !.bids = a.bids \o carried],
                       led1.users, led1.journal, "none")
          ELSE Outcome([a EXCEPT !.rounds = rounds1, !.status = "completed"],
                       led2.users, led2.journal, "none")

-----------------------------------------------------------------------------
(* UserService.deposit *)

\* deposit with the Transaction not written
depositUnrecorded(us, jr, userId, amount) ==
  LET us1 == getOrCreateUser(us, userId)
      credit == updateBalance(us1, userId, amount, "add")
  IN [users |-> credit.users, journal |-> jr]

deposit(us, jr, userId, amount) ==
  LET us1 == getOrCreateUser(us, userId)
      credit == updateBalance(us1, userId, amount, "add")
  IN [users |-> credit.users,
      journal |-> Journal(jr, Tx(userId, "deposit", amount, 0))]

-----------------------------------------------------------------------------
(* AuctionService.getActiveAuctions: the filter, and the completed mark it sets *)

\* [auction, returned]: returned is the number of auctions in the answer
getActiveAuctions(a) ==
  IF a.status # "active" THEN [auction |-> a, returned |-> 0]
  ELSE IF a.currentRound \notin DOMAIN a.rounds THEN [auction |-> a, returned |-> 0]
  ELSE IF a.rounds[a.currentRound].status # "active"
       THEN [auction |-> a, returned |-> 0]
  ELSE IF TotalWinners(a.rounds) >= a.totalItems \/ a.currentRound >= MaxRounds(a)
       THEN [auction |-> [a EXCEPT !.status = "completed"], returned |-> 0]
  ELSE [auction |-> a, returned |-> 1]

-----------------------------------------------------------------------------
(* AuctionService.fixProblematicAuctions *)

\* the loop that adds winningSlots to the rounds that have none
FixWinningSlots(rounds, a, maxRounds) ==
  [i \in DOMAIN rounds |->
     IF rounds[i].winningSlots # 0 THEN rounds[i]
     ELSE LET remainingItems == a.totalItems - TotalWinners(SubSeq(rounds, 1, i - 1))
          IN [rounds[i] EXCEPT !.winningSlots =
                IF i = maxRounds THEN Min(a.itemsPerRound, remainingItems)
                ELSE a.itemsPerRound]]

\* the first loop, over the auctions with status active
FixActive(a, t) ==
  LET maxRounds == CeilDiv(a.totalItems, a.itemsPerRound)
      totalWinners == TotalWinners(a.rounds)
      exceedsMaxRounds == a.currentRound > maxRounds
      allItemsWon == totalWinners >= a.totalItems
      rounds1 == IF Len(a.rounds) > maxRounds THEN Slice0(a.rounds, maxRounds)
                 ELSE a.rounds
      rounds2 == FixWinningSlots(rounds1, a, maxRounds)
      rounds3 ==
        IF a.currentRound \in DOMAIN rounds2 /\ rounds2[a.currentRound].status = "active"
        THEN [rounds2 EXCEPT ![a.currentRound] =
                [@ EXCEPT !.status = "completed",
                          !.endTime = IF @ > t THEN t ELSE @]]
        ELSE rounds2
  IN IF a.status = "active"
        /\ (exceedsMaxRounds \/ allItemsWon \/ Len(a.rounds) > maxRounds)
     THEN [auction |-> [a EXCEPT !.rounds = rounds3,
                                 !.status = "completed",
                                 !.currentRound = IF @ > maxRounds THEN maxRounds ELSE @],
           fixed |-> 1]
     ELSE [auction |-> a, fixed |-> 0]

\* the second loop, over all auctions
FixAll(a) ==
  LET maxRounds == CeilDiv(a.totalItems, a.itemsPerRound)
      rounds1 == Slice0(a.rounds, maxRounds)
  IN IF a.status # "none" /\ Len(a.rounds) > maxRounds
     THEN [auction |->
             [a EXCEPT !.rounds = FixWinningSlots(rounds1, a, maxRounds),
                       !.currentRound = IF @ > maxRounds THEN maxRounds ELSE @,
                       !.status = IF a.currentRound > maxRounds /\ @ = "active"
                                  THEN "completed" ELSE @],
           fixed |-> 1]
     ELSE [auction |-> a, fixed |-> 0]

fixProblematicAuctions(a, t) ==
  LET first == FixActive(a, t)
      second == FixAll(first.auction)
  IN [auction |-> second.auction, fixed |-> first.fixed + second.fixed]

-----------------------------------------------------------------------------
(* roundProcessor: one tick of the cron task *)

\* RoundExpired for a processor that finds no expired round
RoundNeverExpired(a, t) == FALSE

\* whether the tick calls completeRound for the auction
RoundExpired(a, t) ==
  /\ a.status = "active"
  /\ CurrentRoundActive(a)
  /\ t >= a.rounds[a.currentRound].endTime

\* RestAfter with the try/catch around the whole loop: a throw ends the run
RestAfterAbort(queue, threw) == IF threw THEN <<>> ELSE Tail(queue)

\* the auctions left to examine after one iteration: completeRound is called
\* inside try/catch, so the loop goes on whether it threw or not
RestAfter(queue, threw) == Tail(queue)

-----------------------------------------------------------------------------
(* The state machine *)

\* the transactions of one type, and their number
TxOfType(jr, type) == {tx \in BagToSet(jr) : tx.type = type}

RECURSIVE SumBag(_, _)
SumBag(jr, txs) ==
  IF txs = {} THEN 0
  ELSE LET tx == CHOOSE x \in txs : TRUE
       IN CopiesIn(tx, jr) + SumBag(jr, txs \ {tx})

NumTx(jr, type) == SumBag(jr, TxOfType(jr, type))

HasActiveRound(a) == \E i \in DOMAIN a.rounds : a.rounds[i].status = "active"

Init ==
  /\ now = 0
  /\ auction = NoAuction
  /\ users = <<>>
  /\ journal = EmptyBag
  /\ calls = [c \in CallIds |-> Idle]
  /\ fleet = NoFleet

\* the single auction of the model is created once
CreateAuction ==
  /\ auction.status = "none"
  /\ \E data \in Dtos : auction' = createAuction(data)
  /\ UNCHANGED <<now, users, journal, calls, fleet>>

StartAuction ==
  LET out == startAuction(auction, users, journal, now)
  IN /\ auction' = out.auction
     /\ UNCHANGED <<now, users, journal, calls, fleet>>

GetOrCreateUser ==
  \E userId \in UserIds :
    /\ users' = getOrCreateUser(users, userId)
    /\ UNCHANGED <<now, auction, journal, calls, fleet>>

Deposit ==
  \E userId \in DepositUserIds, amount \in DepositAmounts :
    LET out == deposit(users, journal, userId, amount)
    IN /\ NumTx(journal, "deposit") < MaxDeposits
       /\ users' = out.users
       /\ journal' = out.journal
       /\ UNCHANGED <<now, auction, calls, fleet>>

PlaceBid ==
  \E userId \in UserIds, amount \in Amounts :
    LET out == placeBid(auction, users, journal, now, userId, amount, "none")
    IN /\ out.err # "none" \/ NumTx(journal, "bid") < MaxBids
       /\ auction' = out.auction
       /\ users' = out.users
       /\ journal' = out.journal
       /\ UNCHANGED <<now, calls, fleet>>

\* the admin call, POST /:id/complete-round
CompleteRound ==
  LET out == completeRound(auction, users, journal, now)
  IN /\ auction' = out.auction
     /\ users' = out.users
     /\ journal' = out.journal
     /\ UNCHANGED <<now, calls, fleet>>

\* one tick of the cron task: completeRound for the auction whose round has
\* expired, its error caught and logged
RoundProcessorTick ==
  LET out == IF RoundExpired(auction, now)
             THEN completeRound(auction, users, journal, now)
             ELSE Outcome(auction, users, journal, "none")
  IN /\ auction' = out.auction
     /\ users' = out.users
     /\ journal' = out.journal
     /\ UNCHANGED <<now, calls, fleet>>

GetActiveAuctions ==
  LET out == getActiveAuctions(auction)
  IN /\ auction' = out.auction
     /\ UNCHANGED <<now, users, journal, calls, fleet>>

FixProblematicAuctions ==
  LET out == fixProblematicAuctions(auction, now)
  IN /\ auction' = out.auction
     /\ UNCHANGED <<now, users, journal, calls, fleet>>

\* the clock; it is read only while a round is open, so it is advanced only then
Tick ==
  /\ HasActiveRound(auction)
  /\ now < MaxTicks * TickMs
  /\ now' = now + TickMs
  /\ UNCHANGED <<auction, users, journal, calls, fleet>>

Next ==
  \/ CreateAuction
  \/ StartAuction
  \/ GetOrCreateUser
  \/ Deposit
  \/ PlaceBid
  \/ CompleteRound
  \/ RoundProcessorTick
  \/ GetActiveAuctions
  \/ FixProblematicAuctions
  \/ Tick

Spec == Init /\ [][Next]_vars

-----------------------------------------------------------------------------
(* The machine under its scheduling: the cron task runs every 5 s, which is   *)
(* the step of the clock, so the clock does not pass an expired round before  *)
(* the task has run                                                           *)

TickLive ==
  /\ HasActiveRound(auction)
  /\ ~RoundExpired(auction, now)
  /\ now < MaxLiveTicks * TickMs
  /\ now' = now + TickMs
  /\ UNCHANGED <<auction, users, journal, calls, fleet>>

\* the operations on the auction and the processor; a deposit takes no part in
\* the life of a round
NextLive ==
  \/ CreateAuction
  \/ StartAuction
  \/ GetOrCreateUser
  \/ PlaceBid
  \/ CompleteRound
  \/ RoundProcessorTick
  \/ GetActiveAuctions
  \/ FixProblematicAuctions
  \/ TickLive

\* The cron task keeps firing: a tick that finds an expired round closes it, so
\* no round stays expired for ever.  This is what WF_vars(RoundProcessorTick)
\* gives, the tick being enabled (as a step that changes the state) exactly
\* while RoundExpired holds and leaving a state in which it does not.
ProcessorKeepsRunning == []<>(~RoundExpired(auction, now))

SpecLive ==
  Init /\ [][NextLive]_vars /\ WF_vars(TickLive) /\ ProcessorKeepsRunning

-----------------------------------------------------------------------------
(* The same machine when a step of placeBid may fail: the ledger, the journal *)
(* or the store throws, or the call is abandoned at that await                *)

Faults == {"debit", "journal", "save"}

PlaceBidFault ==
  \E userId \in UserIds, amount \in Amounts, fault \in Faults :
    LET out == placeBid(auction, users, journal, now, userId, amount, fault)
    IN /\ NumTx(journal, "bid") < MaxBids
       /\ auction' = out.auction
       /\ users' = out.users
       /\ journal' = out.journal
       /\ UNCHANGED <<now, calls, fleet>>

NextFault == Next \/ PlaceBidFault

SpecFault == Init /\ [][NextFault]_vars

-----------------------------------------------------------------------------
(* The machine with overlapping requests.  placeBid and completeRound are     *)
(* async functions with no lock: each await is a point at which another       *)
(* request runs.  A request in flight holds the auction document it loaded    *)
(* (base); the steps below run from one await to a later one.                 *)

\* the document placeBid holds when it calls auction.save(): the loaded
\* document with the bid pushed, totalBids incremented and endTime extended
PlaceBidDoc(call) ==
  placeBid(call.base, (call.userId :> call.amount), EmptyBag, call.t,
           call.userId, call.amount, "none").auction

\* auction.save() of placeBid on a stored document that has changed since it
\* was loaded, when the store accepts it: the changed paths are written, the
\* pushed bid, rounds[r].totalBids and, if the call extended it, rounds[r].endTime
SaveBidOnto(store, call) ==
  LET doc == PlaceBidDoc(call)
      r == call.base.currentRound
  IN [store EXCEPT
        !.bids = Append(@, Last(doc.bids)),
        !.rounds[r].totalBids = doc.rounds[r].totalBids,
        !.rounds[r].endTime =
          IF doc.rounds[r].endTime # call.base.rounds[r].endTime
          THEN doc.rounds[r].endTime ELSE @]

\* auction.save() of completeRound on a stored document that has changed since
\* it was loaded, when the store accepts it: status and winners of the closed
\* round, the pushed round, currentRound, the pushed bids and the status
SaveCloseOnto(store, call, doc) ==
  LET r == call.base.currentRound
      rounds1 == [store.rounds EXCEPT ![r].status = "completed",
                                      ![r].winners = doc.rounds[r].winners]
  IN [store EXCEPT
        !.rounds = IF Len(doc.rounds) > Len(call.base.rounds)
                   THEN Append(rounds1, Last(doc.rounds)) ELSE rounds1,
        !.currentRound = IF doc.currentRound # call.base.currentRound
                         THEN doc.currentRound ELSE @,
        !.status = IF doc.status # call.base.status THEN doc.status ELSE @,
        !.bids = @ \o SubSeq(doc.bids, Len(call.base.bids) + 1, Len(doc.bids))]

\* what auction.save() may do with a document loaded from `base` when the store
\* holds `store`: an unchanged store takes the document; on a changed store the
\* save either writes its changed paths or fails with a VersionError
SaveOutcomes(store, base) ==
  IF store = base THEN {"saved"} ELSE {"merged", "VersionError"}

InFlight(op) == {c \in CallIds : calls[c].op = op}

\* placeBid up to `await UserService.updateBalance`: the document is loaded,
\* the preconditions are checked, the bid is built; a rejected call leaves
\* nothing in flight
PlaceBidBegin ==
  \E c \in CallIds, userId \in OverlapUserIds, amount \in OverlapAmounts :
    /\ calls[c] = Idle
    /\ PlaceBidError(auction, users, now, userId, amount) = "none"
    /\ NumTx(journal, "bid") + Cardinality(InFlight("placeBid")) < MaxBids
    /\ calls' = [calls EXCEPT ![c] =
                   [op |-> "placeBid", pc |-> "findUser", userId |-> userId,
                    amount |-> amount, base |-> auction, t |-> now, bal |-> 0]]
    /\ UNCHANGED <<now, auction, users, journal, fleet>>

\* updateBalance: User.findOne
PlaceBidFindUser ==
  \E c \in CallIds :
    /\ calls[c].op = "placeBid" /\ calls[c].pc = "findUser"
    /\ calls' = [calls EXCEPT ![c].pc = "debit", ![c].bal = users[calls[c].userId]]
    /\ UNCHANGED <<now, auction, users, journal, fleet>>

\* updateBalance: the check on the loaded user, user.save() with the balance
\* computed from it; then Transaction.create
PlaceBidDebit ==
  \E c \in CallIds :
    /\ calls[c].op = "placeBid" /\ calls[c].pc = "debit"
    /\ IF calls[c].bal < calls[c].amount
       THEN /\ calls' = [calls EXCEPT ![c] = Idle]
            /\ UNCHANGED <<users, journal>>
       ELSE /\ users' = [users EXCEPT ![calls[c].userId] =
                                        calls[c].bal - calls[c].amount]
            /\ journal' = Journal(journal, Tx(calls[c].userId, "bid", calls[c].amount,
                                              calls[c].base.currentRound))
            /\ calls' = [calls EXCEPT ![c].pc = "save"]
    /\ UNCHANGED <<now, auction, fleet>>

\* auction.save() of placeBid
PlaceBidSave ==
  \E c \in CallIds :
    /\ calls[c].op = "placeBid" /\ calls[c].pc = "save"
    /\ \E outcome \in SaveOutcomes(auction, calls[c].base) :
         auction' = CASE outcome = "saved" -> PlaceBidDoc(calls[c])
                      [] outcome = "merged" -> SaveBidOnto(auction, calls[c])
                      [] outcome = "VersionError" -> auction
    /\ calls' = [calls EXCEPT ![c] = Idle]
    /\ UNCHANGED <<now, users, journal, fleet>>

\* completeRound (admin call or cron tick) up to its first refund: the document
\* is loaded and the preconditions are checked
CompleteRoundBegin ==
  \E c \in CallIds :
    /\ calls[c] = Idle
    /\ CurrentRoundActive(auction)
    /\ ~RoundNotEndedYet(now, auction.rounds[auction.currentRound].endTime)
    /\ calls' = [calls EXCEPT ![c] =
                   [op |-> "completeRound", pc |-> "settle", userId |-> "",
                    amount |-> 0, base |-> auction, t |-> now, bal |-> 0]]
    /\ UNCHANGED <<now, auction, users, journal, fleet>>

\* the rest of completeRound: the refunds (updateBalance and Transaction.create
\* for each), computed on the loaded document, then auction.save()
CompleteRoundSettle ==
  \E c \in CallIds :
    /\ calls[c].op = "completeRound" /\ calls[c].pc = "settle"
    /\ LET out == completeRound(calls[c].base, users, journal, calls[c].t)
       IN /\ users' = out.users
          /\ journal' = out.journal
          /\ \E outcome \in SaveOutcomes(auction, calls[c].base) :
               auction' = CASE outcome = "saved" -> out.auction
                            [] outcome = "merged" ->
                                 SaveCloseOnto(auction, calls[c], out.auction)
                            [] outcome = "VersionError" -> auction
    /\ calls' = [calls EXCEPT ![c] = Idle]
    /\ UNCHANGED <<now, fleet>>

NextOverlap ==
  \/ CreateAuction
  \/ StartAuction
  \/ GetOrCreateUser
  \/ Tick
  \/ PlaceBidBegin
  \/ PlaceBidFindUser
  \/ PlaceBidDebit
  \/ PlaceBidSave
  \/ CompleteRoundBegin
  \/ CompleteRoundSettle

SpecOverlap == Init /\ [][NextOverlap]_vars

-----------------------------------------------------------------------------
(* The machine for auctions created from itemsPerRound alone, of every size   *)
(* up to MaxItems                                                             *)

CreateAuctionPlan ==
  /\ auction.status = "none"
  /\ \E data \in PlanDtos : auction' = createAuction(data)
  /\ UNCHANGED <<now, users, journal, calls, fleet>>

\* placeBid with the one amount of PlanAmounts
PlaceBidPlan ==
  \E userId \in UserIds, amount \in PlanAmounts :
    LET out == placeBid(auction, users, journal, now, userId, amount, "none")
    IN /\ out.err # "none" \/ NumTx(journal, "bid") < MaxPlanBids
       /\ auction' = out.auction
       /\ users' = out.users
       /\ journal' = out.journal
       /\ UNCHANGED <<now, calls, fleet>>

PlanTick ==
  /\ HasActiveRound(auction)
  /\ now < MaxPlanTicks * TickMs
  /\ now' = now + TickMs
  /\ UNCHANGED <<auction, users, journal, calls, fleet>>

NextPlan ==
  \/ CreateAuctionPlan
  \/ StartAuction
  \/ GetOrCreateUser
  \/ PlaceBidPlan
  \/ RoundProcessorTick
  \/ PlanTick

SpecPlan == Init /\ [][NextPlan]_vars

-----------------------------------------------------------------------------
(* The machine for the auction of scenarios S3 and S4, with a clock of one    *)
(* second: bids arrive at any second of the round                             *)

CreateAuctionSnipe ==
  /\ auction.status = "none"
  /\ \E data \in SnipeDtos : auction' = createAuction(data)
  /\ UNCHANGED <<now, users, journal, calls, fleet>>

PlaceBidSnipe ==
  \E userId \in UserIds, amount \in SnipeAmounts :
    LET out == placeBid(auction, users, journal, now, userId, amount, "none")
    IN /\ out.err # "none" \/ NumTx(journal, "bid") < MaxSnipeBids
       /\ auction' = out.auction
       /\ users' = out.users
       /\ journal' = out.journal
       /\ UNCHANGED <<now, calls, fleet>>

SnipeTick ==
  /\ HasActiveRound(auction)
  /\ now < MaxSnipeSteps * SecMs
  /\ now' = now + SecMs
  /\ UNCHANGED <<auction, users, journal, calls, fleet>>

NextSnipe ==
  \/ CreateAuctionSnipe
  \/ StartAuction
  \/ GetOrCreateUser
  \/ PlaceBidSnipe
  \/ CompleteRound
  \/ SnipeTick

SpecSnipe == Init /\ [][NextSnipe]_vars

-----------------------------------------------------------------------------
(* The round processor over several auctions, with a completeRound that may   *)
(* throw (the store or the ledger fails)                                      *)

FleetCreateAuction ==
  \E data \in Dtos :
    /\ Len(fleet.auctions) < Len(AuctionIds)
    /\ fleet' = [fleet EXCEPT !.auctions = Append(@, createAuction(data))]
    /\ UNCHANGED <<now, auction, users, journal, calls>>

FleetStartAuction ==
  \E i \in DOMAIN fleet.auctions :
    /\ fleet' = [fleet EXCEPT
                   !.auctions[i] = startAuction(@, users, journal, now).auction]
    /\ UNCHANGED <<now, auction, users, journal, calls>>

FleetTick ==
  /\ \E i \in DOMAIN fleet.auctions : HasActiveRound(fleet.auctions[i])
  /\ now < MaxFleetTicks * TickMs
  /\ now' = now + TickMs
  /\ UNCHANGED <<auction, users, journal, calls, fleet>>

\* the cron callback starts: Auction.find({ status: 'active' })
ProcessorBegin ==
  /\ fleet.pc = "idle"
  /\ fleet' = [fleet EXCEPT
                 !.pc = "loop",
                 !.found = fleet.auctions,
                 !.queue = SelectSeq([i \in DOMAIN fleet.auctions |-> i],
                                     LAMBDA i : fleet.auctions[i].status = "active"),
                 !.t0 = now,
                 !.attempted = {},
                 !.failed = {},
                 !.retry = fleet.failed]
  /\ UNCHANGED <<now, auction, users, journal, calls>>

\* one iteration of the loop: the round of the document found is examined and,
\* if it has expired, completeRound is called; the call runs or throws
ProcessorStep ==
  /\ fleet.pc = "loop"
  /\ fleet.queue # <<>>
  /\ LET i == Head(fleet.queue)
         out == completeRound(fleet.auctions[i], users, journal, now)
     IN IF ~RoundExpired(fleet.found[i], now)
        THEN /\ fleet' = [fleet EXCEPT !.queue = Tail(@)]
             /\ UNCHANGED <<users, journal>>
        ELSE \E outcome \in {"runs", "throws"} :
               LET threw == outcome = "throws" \/ out.err # "none"
               IN /\ fleet' = [fleet EXCEPT
                                 !.auctions[i] = IF threw THEN @ ELSE out.auction,
                                 !.queue = RestAfter(@, threw),
                                 !.attempted = @ \cup {i},
                                 !.failed = IF threw THEN @ \cup {i} ELSE @]
                  /\ users' = IF threw THEN users ELSE out.users
                  /\ journal' = IF threw THEN journal ELSE out.journal
  /\ UNCHANGED <<now, auction, calls>>

\* the loop is over and the callback returns
ProcessorEnd ==
  /\ fleet.pc = "loop"
  /\ fleet.queue = <<>>
  /\ fleet' = [fleet EXCEPT !.pc = "idle", !.found = NoFleet.found]
  /\ UNCHANGED <<now, auction, users, journal, calls>>

NextFleet ==
  \/ FleetCreateAuction
  \/ FleetStartAuction
  \/ FleetTick
  \/ ProcessorBegin
  \/ ProcessorStep
  \/ ProcessorEnd

SpecFleet == Init /\ [][NextFleet]_vars

-----------------------------------------------------------------------------
(* The machine of the operations that move money: deposits, bids and the      *)
(* closes of the round processor                                              *)

NextLedger ==
  \/ CreateAuction
  \/ StartAuction
  \/ GetOrCreateUser
  \/ Deposit
  \/ PlaceBidSnipe
  \/ RoundProcessorTick
  \/ PlanTick

SpecLedger == Init /\ [][NextLedger]_vars

-----------------------------------------------------------------------------
(* The round processor with a completeRound that may fail part-way: the        *)
(* refunds are written one by one before auction.save(), and a throw (the      *)
(* ledger, the journal or the store fails) is caught by the processor          *)

\* the bids completeRound refunds, in the order of its two loops: the lower
\* bids of the round's winners, then, when the close finalizes the auction, the
\* bids of the users who never won
CloseRefunds(a) ==
  LET roundBids == RoundBids(a.bids, a.currentRound)
      winningSlots == OrElse(a.rounds[a.currentRound].winningSlots, a.itemsPerRound)
      winners == Winners(SortBids(UserBids(roundBids)), winningSlots)
      rounds1 == [a.rounds EXCEPT ![a.currentRound] =
                    [@ EXCEPT !.status = "completed", !.winners = winners]]
      advance == /\ a.currentRound <= MaxRounds(a)
                 /\ TotalWinners(rounds1) < a.totalItems
                 /\ a.currentRound < MaxRounds(a)
  IN WinnerRefunds(roundBids, winners)
       \o (IF advance \/ a.currentRound > MaxRounds(a) THEN <<>>
           ELSE FinalRefunds(a.bids, rounds1))

\* a tick whose completeRound throws after n of its refunds (updateBalance and
\* Transaction.create) and before auction.save(): the credits and the
\* transactions stay, the auction document is not written
CompleteRoundFault ==
  /\ RoundExpired(auction, now)
  /\ \E n \in 1..Len(CloseRefunds(auction)) :
       LET led == RefundLoop(SubSeq(CloseRefunds(auction), 1, n), users, journal)
       IN /\ NumTx(journal, "refund") + n <= MaxRefundsAtFault
          /\ users' = led.users
          /\ journal' = led.journal
  /\ UNCHANGED <<now, auction, calls, fleet>>

NextRetry ==
  \/ CreateAuction
  \/ StartAuction
  \/ GetOrCreateUser
  \/ PlaceBidSnipe
  \/ RoundProcessorTick
  \/ CompleteRoundFault
  \/ PlanTick

SpecRetry == Init /\ [][NextRetry]_vars

-----------------------------------------------------------------------------
(* Quantities the properties are stated in *)

RECURSIVE SumTx(_, _)
SumTx(jr, txs) ==
  IF txs = {} THEN 0
  ELSE LET tx == CHOOSE x \in txs : TRUE
       IN tx.amount * CopiesIn(tx, jr) + SumTx(jr, txs \ {tx})

\* the sum of the user's transactions of one type
TxTotal(jr, userId, type) ==
  SumTx(jr, {tx \in BagToSet(jr) : tx.userId = userId /\ tx.type = type})

RECURSIVE SumWinnings(_, _)
SumWinnings(winners, userId) ==
  IF winners = <<>> THEN 0
  ELSE (IF Head(winners).userId = userId THEN Head(winners).bidAmount ELSE 0)
       + SumWinnings(Tail(winners), userId)

\* the sum of bidAmount over the user's winner entries of all rounds
RECURSIVE WinningTotal(_, _)
WinningTotal(rounds, userId) ==
  IF rounds = <<>> THEN 0
  ELSE SumWinnings(Head(rounds).winners, userId) + WinningTotal(Tail(rounds), userId)

\* the number of planned rounds: len(winnersPerRound), or
\* ceil(totalItems / itemsPerRound) when winnersPerRound is absent
PlannedRounds ==
  IF auction.winnersPerRound # <<>> THEN Len(auction.winnersPerRound)
  ELSE CHOOSE n \in 0..auction.totalItems :
         /\ n * auction.itemsPerRound >= auction.totalItems
         /\ (n - 1) * auction.itemsPerRound < auction.totalItems

\* the auction is completed and none of its rounds is still open
Settled(a) == a.status = "completed" /\ ~HasActiveRound(a)

-----------------------------------------------------------------------------
(* C1 *)

\* C1: conservation at completion.  In every state in which the auction is
\* completed (and no round of it is left open), every user's balance is the
\* initial balance plus the deposits minus the bidAmount of the user's winner
\* entries: no user retains a debit for a bid that did not win.
C1_Conservation ==
  Settled(auction) =>
    \A u \in DOMAIN users :
      users[u] = InitialBalance + TxTotal(journal, u, "deposit")
                   - WinningTotal(auction.rounds, u)

-----------------------------------------------------------------------------
(* C2 *)

\* C2: the never-in-top refund is exact.  A user's refunds never exceed the
\* user's bid debits, and a close that finalizes the auction leaves every user
\* who is in no round's winners with refunds equal to the bid debits.
C2_ExactRefund ==
  /\ \A u \in DOMAIN users :
       TxTotal(journal, u, "refund") <= TxTotal(journal, u, "bid")
  /\ LET out == completeRound(auction, users, journal, now)
     IN (out.err = "none" /\ out.auction.status = "completed") =>
          \A u \in DOMAIN users :
            u \notin AllWinnerUserIds(out.auction.rounds) =>
              TxTotal(out.journal, u, "refund") = TxTotal(out.journal, u, "bid")

-----------------------------------------------------------------------------
(* C3 *)

\* the users with a bid in round r
Bidders(bids, r) == {bids[k].userId : k \in {j \in DOMAIN bids : bids[j].roundNumber = r}}

UserRoundBids(bids, r, u) ==
  {bids[k] : k \in {j \in DOMAIN bids : bids[j].roundNumber = r /\ bids[j].userId = u}}

\* the largest amount the user bid in round r
BestAmount(bids, r, u) ==
  CHOOSE m \in {b.amount : b \in UserRoundBids(bids, r, u)} :
    \A b \in UserRoundBids(bids, r, u) : b.amount <= m

\* the earliest timestamp among the user's bids of that largest amount
BestTime(bids, r, u) ==
  LET ts == {b.timestamp : b \in {x \in UserRoundBids(bids, r, u) :
                                    x.amount = BestAmount(bids, r, u)}}
  IN CHOOSE m \in ts : \A x \in ts : m <= x

\* u's best bid ranks strictly before v's: larger amount, then earlier timestamp
RanksBefore(bids, r, u, v) ==
  \/ BestAmount(bids, r, u) > BestAmount(bids, r, v)
  \/ /\ BestAmount(bids, r, u) = BestAmount(bids, r, v)
     /\ BestTime(bids, r, u) < BestTime(bids, r, v)

\* C3: top-K correctness.  The winners of every completed round are the first
\* winningSlots entries of the ranking of the round's Bid records: one entry per
\* user with the user's largest amount, ordered by amount descending and then
\* timestamp ascending, no user outside the list ranking before one inside it,
\* with positions 1..n.
C3_TopK ==
  \A i \in DOMAIN auction.rounds :
    auction.rounds[i].status = "completed" =>
      LET r == auction.rounds[i].roundNumber
          w == auction.rounds[i].winners
          bidders == Bidders(auction.bids, r)
      IN /\ Len(w) = Min(auction.rounds[i].winningSlots, Cardinality(bidders))
         /\ \A k \in DOMAIN w :
              /\ w[k].position = k
              /\ w[k].userId \in bidders
              /\ w[k].bidAmount = BestAmount(auction.bids, r, w[k].userId)
         /\ \A j, k \in DOMAIN w :
              j < k => /\ w[j].userId # w[k].userId
                       /\ ~RanksBefore(auction.bids, r, w[k].userId, w[j].userId)
         /\ \A k \in DOMAIN w : \A u \in bidders \ WinnerUserIds(w) :
              ~RanksBefore(auction.bids, r, u, w[k].userId)

\* a completed round in which more users bid than there were slots
C3_Witness ==
  \E i \in DOMAIN auction.rounds :
    /\ auction.rounds[i].status = "completed"
    /\ Len(auction.rounds[i].winners) = auction.rounds[i].winningSlots
    /\ Cardinality(Bidders(auction.bids, auction.rounds[i].roundNumber))
         > auction.rounds[i].winningSlots

-----------------------------------------------------------------------------
(* C4 *)

\* the round-R records of the users who are not among winners
LosingBids(bids, R, winners) ==
  SelectSeq(bids, LAMBDA b : b.roundNumber = R /\ b.userId \notin WinnerUserIds(winners))

\* C4: carry-forward fidelity.  A close of round R that opens round R+1 leaves
\* every record already in auction.bids in place and unchanged, and appends, for
\* every round-R record of a user who is not among R's winners, a record with
\* the same userId, amount and timestamp and roundNumber R+1 (and nothing else).
C4_CarryForward ==
  [][ (CurrentRoundActive(auction) /\ auction'.currentRound = auction.currentRound + 1)
      => LET R == auction.currentRound
             old == auction.bids
             new == auction'.bids
             losing == LosingBids(old, R, auction'.rounds[R].winners)
         IN /\ Len(new) = Len(old) + Len(losing)
            /\ SubSeq(new, 1, Len(old)) = old
            /\ \A k \in DOMAIN losing :
                 \E j \in (Len(old) + 1)..Len(new) :
                   new[j] = [losing[k] EXCEPT !.roundNumber = R + 1]
    ]_vars

\* round 2 is open and holds a record carried from round 1, which is still there
C4_Witness ==
  /\ Len(auction.rounds) = 2
  /\ auction.rounds[2].status = "active"
  /\ \E j, k \in DOMAIN auction.bids :
       /\ auction.bids[k].roundNumber = 1
       /\ auction.bids[j] = [auction.bids[k] EXCEPT !.roundNumber = 2]
       /\ auction.bids[j].timestamp < auction.rounds[2].startTime

-----------------------------------------------------------------------------
(* C5 *)

\* C5: extension cap.  No round lasts longer than twice the round duration.
C5_ExtensionCap ==
  \A i \in DOMAIN auction.rounds :
    auction.rounds[i].endTime - auction.rounds[i].startTime
      <= 2 * auction.roundDuration * SecMs

\* a round extended to the cap that holds a bid placed so late that one more
\* extension by the window would have passed the cap
C5_Witness ==
  \E i \in DOMAIN auction.rounds :
    /\ auction.rounds[i].endTime - auction.rounds[i].startTime
         = 2 * auction.roundDuration * SecMs
    /\ \E k \in DOMAIN auction.bids :
         /\ auction.bids[k].roundNumber = i
         /\ auction.bids[k].timestamp + auction.antiSnipingWindow * SecMs
              > auction.rounds[i].endTime

-----------------------------------------------------------------------------
(* C6 *)

\* C6: admission cutoff.  A bid is admitted only at a time strictly before the
\* endTime its round has at that moment, its timestamp being that time; at or
\* after that endTime placeBid admits nothing, and answers "Round has ended"
\* when the bid passes the checks that come before.  So every Bid record has a
\* timestamp before its round's endTime.
C6_AdmissionCutoff ==
  /\ \A u \in UserIds, amt \in Amounts :
       LET out == placeBid(auction, users, journal, now, u, amt, "none")
       IN /\ out.err = "none" =>
               /\ now < auction.rounds[auction.currentRound].endTime
               /\ out.auction.bids =
                    Append(auction.bids,
                           [userId |-> u, amount |-> amt, timestamp |-> now,
                            roundNumber |-> auction.currentRound])
          /\ (/\ auction.currentRound \in DOMAIN auction.rounds
              /\ now >= auction.rounds[auction.currentRound].endTime) =>
               /\ out.err # "none"
               /\ (/\ auction.status = "active"
                   /\ amt >= auction.minBid
                   /\ u \in DOMAIN users
                   /\ users[u] >= amt
                   /\ auction.rounds[auction.currentRound].status = "active") =>
                    out.err = "Round has ended"
  /\ \A k \in DOMAIN auction.bids :
       auction.bids[k].roundNumber \in DOMAIN auction.rounds =>
         auction.bids[k].timestamp < auction.rounds[auction.bids[k].roundNumber].endTime

\* the clock stands exactly at the endTime of the open round, which holds bids,
\* and a user could still pay for a bid
C6_Witness ==
  /\ auction.status = "active"
  /\ CurrentRoundActive(auction)
  /\ now = auction.rounds[auction.currentRound].endTime
  /\ RoundBids(auction.bids, auction.currentRound) # <<>>
  /\ \E u \in DOMAIN users : users[u] >= 400

-----------------------------------------------------------------------------
(* C7 *)

\* the times of the model's clock
Times == {k * TickMs : k \in 0..MaxTicks}

\* C7: idempotent close.  After a successful completeRound, a second call, made
\* before the endTime of the round the first call opened (if it opened one), is
\* rejected and leaves the auction, the balances and the journal as the first
\* call left them.
C7_IdempotentClose ==
  LET first == completeRound(auction, users, journal, now)
  IN first.err = "none" =>
       \A t \in {x \in Times : x >= now} :
         (CurrentRoundActive(first.auction)
            => t < first.auction.rounds[first.auction.currentRound].endTime) =>
           LET second == completeRound(first.auction, first.users, first.journal, t)
           IN /\ second.err # "none"
              /\ second.auction = first.auction
              /\ second.users = first.users
              /\ second.journal = first.journal

\* a close has just opened round 2 and carried a bid into it; the clock has not
\* moved since
C7_Witness ==
  /\ C4_Witness
  /\ now = auction.rounds[2].startTime
  /\ completeRound(auction, users, journal, now).err = "Round has not ended yet"

-----------------------------------------------------------------------------
(* C8 *)

\* C8: ranker determinism.  The leaderboard of every round is strictly ordered
\* by amount descending, then timestamp ascending: no two of its entries have
\* the same amount and the same timestamp.
C8_StrictOrder ==
  \A i \in DOMAIN auction.rounds :
    LET board == Leaderboard(auction.bids, auction.rounds[i].roundNumber)
    IN \A j, k \in DOMAIN board :
         j < k => \/ board[j].amount > board[k].amount
                  \/ /\ board[j].amount = board[k].amount
                     /\ board[j].timestamp < board[k].timestamp

-----------------------------------------------------------------------------
(* C9 *)

\* a precondition of placeBid fails
PreconditionFails(u, amt) ==
  \/ auction.status # "active"
  \/ amt < auction.minBid
  \/ u \notin DOMAIN users
  \/ users[u] < amt
  \/ auction.currentRound \notin DOMAIN auction.rounds
  \/ auction.rounds[auction.currentRound].status # "active"
  \/ now >= auction.rounds[auction.currentRound].endTime

\* C9: a rejected bid leaves no trace.  When a precondition fails, placeBid
\* returns an error, and whenever it returns an error the auction, the balances
\* and the journal are unchanged.
C9_RejectedNoTrace ==
  \A u \in UserIds, amt \in Amounts :
    LET out == placeBid(auction, users, journal, now, u, amt, "none")
    IN /\ PreconditionFails(u, amt) => out.err # "none"
       /\ out.err # "none" =>
            /\ out.auction = auction
            /\ out.users = users
            /\ out.journal = journal

\* the round is open and a user who has bid cannot pay for a further bid of 600
C9_Witness ==
  /\ auction.status = "active"
  /\ CurrentRoundActive(auction)
  /\ now < auction.rounds[auction.currentRound].endTime
  /\ \E u \in DOMAIN users :
       /\ users[u] < 600
       /\ TxTotal(journal, u, "bid") > 0
       /\ placeBid(auction, users, journal, now, u, 600, "none").err
            = "Insufficient balance"

-----------------------------------------------------------------------------
(* C10 *)

\* the number of the user's 'bid' transactions
NumBidTx(jr, u) ==
  SumBag(jr, {tx \in BagToSet(jr) : tx.userId = u /\ tx.type = "bid"})

\* C10: placeBid is all-or-nothing.  In every step, a user's balance is reduced
\* if and only if a 'bid' transaction of the user is written, and if and only if
\* a Bid record of the user is appended to the current round.
C10_AllOrNothing ==
  [][ \A u \in DOMAIN users :
        LET debited == u \in DOMAIN users' /\ users'[u] < users[u]
            journaled == NumBidTx(journal', u) > NumBidTx(journal, u)
            recorded == /\ auction'.currentRound = auction.currentRound
                        /\ Len(auction'.bids) = Len(auction.bids) + 1
                        /\ Last(auction'.bids).userId = u
        IN (debited <=> journaled) /\ (journaled <=> recorded)
    ]_vars

-----------------------------------------------------------------------------
(* C11 *)

\* the Bid records written by placeBid (a carried copy is older than its round)
IsAdmitted(a, bid) ==
  /\ bid.roundNumber \in DOMAIN a.rounds
  /\ bid.timestamp >= a.rounds[bid.roundNumber].startTime

RECURSIVE AdmittedTotal(_, _, _)
AdmittedTotal(a, bids, userId) ==
  IF bids = <<>> THEN 0
  ELSE (IF Head(bids).userId = userId /\ IsAdmitted(a, Head(bids))
        THEN Head(bids).amount ELSE 0)
       + AdmittedTotal(a, Tail(bids), userId)

\* no placeBid of the user is in flight
NoBidInFlight(userId) ==
  \A c \in CallIds : calls[c].op = "placeBid" => calls[c].userId # userId

\* C11: the balance check and the debit are atomic.  Every admitted bid was
\* covered by the balance and paid in full: once a user's requests have
\* returned, the amounts of the user's admitted bids are not more than what the
\* balance went down by (initial balance, deposits and refunds counted in), and
\* the balance is not negative.  So of two overlapping bids that the balance
\* covers one by one but not together, at most one is admitted.
C11_AtomicDebit ==
  \A u \in DOMAIN users :
    NoBidInFlight(u) =>
      /\ users[u] >= 0
      /\ AdmittedTotal(auction, auction.bids, u)
           <= InitialBalance + TxTotal(journal, u, "deposit")
                + TxTotal(journal, u, "refund") - users[u]

-----------------------------------------------------------------------------
(* C12 *)

NumAdmitted(a, r) ==
  Len(SelectSeq(a.bids, LAMBDA bid : bid.roundNumber = r /\ IsAdmitted(a, bid)))

\* C12: bids on one auction are serialized.  When the placeBid calls have
\* returned, the aggregate is what running the admitted bids one after the other
\* gives: every round's totalBids is the number of bids admitted to it, two
\* overlapping admitted bids making it grow by 2.
C12_SerializedBids ==
  InFlight("placeBid") = {} =>
    \A i \in DOMAIN auction.rounds :
      auction.rounds[i].totalBids = NumAdmitted(auction, i)

-----------------------------------------------------------------------------
(* C13 *)

NumBidsOfRound(bids, r) == Len(SelectSeq(bids, LAMBDA bid : bid.roundNumber = r))

NumBidTxOfRound(jr, r) ==
  SumBag(jr, {tx \in BagToSet(jr) : tx.type = "bid" /\ tx.roundNumber = r})

\* C13: placeBid against closeRound.  Once round R is completed, no step adds a
\* Bid record with roundNumber R and no step takes a bid debit for round R: a
\* bid that overlaps the close is either in before it or rejected.
C13_NoBidAfterClose ==
  [][ \A r \in DOMAIN auction.rounds :
        auction.rounds[r].status = "completed" =>
          /\ NumBidsOfRound(auction'.bids, r) = NumBidsOfRound(auction.bids, r)
          /\ NumBidTxOfRound(journal', r) = NumBidTxOfRound(journal, r)
    ]_vars

-----------------------------------------------------------------------------
(* C14 *)

\* the carried-forward copies among the Bid records: those older than their round
NumCarried(a) ==
  Len(SelectSeq(a.bids, LAMBDA bid :
        /\ bid.roundNumber \in DOMAIN a.rounds
        /\ bid.timestamp < a.rounds[bid.roundNumber].startTime))

\* C14: overlapping closes settle once.  Refunds are credited, a next round is
\* appended and bids are carried forward only by the one step that takes an
\* open round to completed, and that step appends at most one round.
C14_SettleOnce ==
  [][ (\/ NumTx(journal', "refund") > NumTx(journal, "refund")
       \/ (auction.rounds # <<>> /\ Len(auction'.rounds) > Len(auction.rounds))
       \/ NumCarried(auction') > NumCarried(auction))
      => /\ \E r \in DOMAIN auction.rounds :
              /\ auction.rounds[r].status = "active"
              /\ r \in DOMAIN auction'.rounds
              /\ auction'.rounds[r].status = "completed"
         /\ Len(auction'.rounds) <= Len(auction.rounds) + 1
    ]_vars

-----------------------------------------------------------------------------
(* C15 *)

\* the number of rounds that have been closed
Closures == Cardinality({i \in DOMAIN auction.rounds :
                           auction.rounds[i].status = "completed"})

\* C15: auction termination.  With the round processor and the clock running,
\* an auction that is active is eventually completed, and never after more
\* round closures than rounds were planned, however many bids extend the rounds.
C15_Termination ==
  /\ [](auction.status # "none" => Closures <= PlannedRounds)
  /\ (auction.status = "active") ~> (auction.status = "completed")

\* the auction is completed after two closures, one of a round that the bids
\* had extended to twice its duration
C15_Witness ==
  /\ auction.status = "completed"
  /\ Closures = 2
  /\ \E i \in DOMAIN auction.rounds :
       auction.rounds[i].endTime - auction.rounds[i].startTime
         = 2 * auction.roundDuration * SecMs

-----------------------------------------------------------------------------
(* C16 *)

\* C16: single active round.  While the auction is active, exactly one of its
\* rounds is active, it is rounds[currentRound - 1] (the currentRound-th round),
\* and all earlier rounds are completed.
C16_SingleActiveRound ==
  auction.status = "active" =>
    /\ auction.currentRound \in DOMAIN auction.rounds
    /\ \A i \in DOMAIN auction.rounds :
         /\ auction.rounds[i].status = "active" <=> i = auction.currentRound
         /\ i < auction.currentRound => auction.rounds[i].status = "completed"

\* the auction is active in its second round
C16_Witness ==
  /\ auction.status = "active"
  /\ auction.currentRound = 2
  /\ auction.rounds[1].status = "completed"
  /\ auction.rounds[2].status = "active"

-----------------------------------------------------------------------------
(* C17 *)

\* C17: supply bound.  The winner entries of all rounds together never exceed
\* totalItems, and no round has more winners than its winningSlots.
C17_SupplyBound ==
  /\ TotalWinners(auction.rounds) <= auction.totalItems
  /\ \A i \in DOMAIN auction.rounds :
       Len(auction.rounds[i].winners) <= auction.rounds[i].winningSlots

\* every item has been won, and some round had more bidders than slots
C17_Witness ==
  /\ auction.totalItems > 0
  /\ TotalWinners(auction.rounds) = auction.totalItems
  /\ \E i \in DOMAIN auction.rounds :
       Cardinality(Bidders(auction.bids, i)) > auction.rounds[i].winningSlots

-----------------------------------------------------------------------------
(* C18 *)

\* C18: round-plan bound.  A started auction (active or completed) has at most
\* as many rounds as were planned, 1 <= currentRound <= len(rounds), and the
\* round numbers are 1..len(rounds) in order.
C18_RoundPlanBound ==
  auction.status \in {"active", "completed"} =>
    /\ Len(auction.rounds) <= PlannedRounds
    /\ 1 <= auction.currentRound
    /\ auction.currentRound <= Len(auction.rounds)
    /\ \A i \in DOMAIN auction.rounds : auction.rounds[i].roundNumber = i

\* the last planned round of a plan of two rounds has been opened
C18_Witness ==
  /\ auction.status \in {"active", "completed"}
  /\ PlannedRounds = 2
  /\ Len(auction.rounds) = 2
  /\ auction.currentRound = 2

-----------------------------------------------------------------------------
(* C19 *)

-----------------------------------------------------------------------------
(* C20 *)

\* C20: startAuction succeeds on a draft auction and only on one.  After success
\* the auction is active in round 1, its only round, which is active, has no
\* winners and no bids, has the first planned number of slots and ends
\* roundDuration (seconds) after it starts; on any other status the call fails
\* and changes nothing.
C20_StartAuction ==
  LET out == startAuction(auction, users, journal, now)
  IN /\ out.users = users
     /\ out.journal = journal
     /\ auction.status = "draft" =>
          /\ out.err = "none"
          /\ out.auction.status = "active"
          /\ out.auction.currentRound = 1
          /\ Len(out.auction.rounds) = 1
          /\ out.auction.rounds[1].roundNumber = 1
          /\ out.auction.rounds[1].status = "active"
          /\ out.auction.rounds[1].winners = <<>>
          /\ out.auction.rounds[1].totalBids = 0
          /\ out.auction.rounds[1].winningSlots =
               (IF auction.winnersPerRound # <<>> THEN auction.winnersPerRound[1]
                ELSE Min(auction.itemsPerRound, auction.totalItems))
          /\ out.auction.rounds[1].startTime = now
          /\ out.auction.rounds[1].endTime = now + auction.roundDuration * SecMs
          /\ out.auction.bids = auction.bids
          /\ \A f \in {"totalItems", "itemsPerRound", "winnersPerRound",
                       "roundDuration", "minBid", "antiSnipingWindow"} :
               out.auction[f] = auction[f]
     /\ auction.status # "draft" =>
          /\ out.err # "none"
          /\ out.auction = auction

\* the auction has been started and holds bids: a second start is refused
C20_Witness ==
  /\ auction.status = "active"
  /\ auction.rounds[1].startTime = 0
  /\ auction.bids # <<>>
  /\ startAuction(auction, users, journal, now).err = "Auction cannot be started"

-----------------------------------------------------------------------------
(* C21 *)

\* ceil(totalItems / itemsPerRound), by its definition
CeilOf(totalItems, itemsPerRound) ==
  CHOOSE n \in 1..totalItems :
    n * itemsPerRound >= totalItems /\ (n - 1) * itemsPerRound < totalItems

RECURSIVE SumSeq(_)
SumSeq(s) == IF s = <<>> THEN 0 ELSE Head(s) + SumSeq(Tail(s))

\* C21: slot-plan normalization.  For an auction with winnersPerRound absent,
\* the plan of startAuction and completeRound is itemsPerRound for every round
\* but the last and the remainder for the last, its length is
\* ceil(totalItems / itemsPerRound), every element is at least 1 and the
\* elements sum to totalItems; round r has winningSlots equal to element r.
C21_SlotPlan ==
  (auction.status # "none" /\ auction.winnersPerRound = <<>>) =>
    LET plan == WinnersPerRound(auction)
        n == CeilOf(auction.totalItems, auction.itemsPerRound)
    IN /\ Len(plan) = n
       /\ \A i \in 1..(n - 1) : plan[i] = auction.itemsPerRound
       /\ plan[n] = auction.totalItems - (n - 1) * auction.itemsPerRound
       /\ \A i \in DOMAIN plan : plan[i] >= 1
       /\ SumSeq(plan) = auction.totalItems
       /\ \A r \in DOMAIN auction.rounds :
            auction.rounds[r].winningSlots = plan[r]

\* three items at two a round: round 2 is open with the remainder, one slot
C21_Witness ==
  /\ auction.winnersPerRound = <<>>
  /\ auction.totalItems = 3 /\ auction.itemsPerRound = 2
  /\ Len(auction.rounds) = 2
  /\ auction.rounds[1].winningSlots = 2
  /\ auction.rounds[2].winningSlots = 1
  /\ Len(auction.rounds[1].winners) = 2

-----------------------------------------------------------------------------
(* C22 *)

\* C22: a close before the deadline is rejected.  When the current round is not
\* active, or the clock is before the endTime the round has now (an extended
\* endTime included), completeRound fails and leaves the auction, the balances
\* and the journal unchanged; so no step of the scheduler takes a round from
\* active to completed before that endTime.
C22_NoEarlyClose ==
  /\ [] (LET out == completeRound(auction, users, journal, now)
         IN (\/ ~CurrentRoundActive(auction)
             \/ now < auction.rounds[auction.currentRound].endTime) =>
              /\ out.err # "none"
              /\ out.auction = auction
              /\ out.users = users
              /\ out.journal = journal)
  /\ [][ \A r \in DOMAIN auction.rounds :
           (/\ auction.rounds[r].status = "active"
            /\ r \in DOMAIN auction'.rounds
            /\ auction'.rounds[r].status = "completed")
           => now >= auction.rounds[r].endTime ]_vars

\* the nominal end of the open round has passed, a bid has extended the round
\* beyond it, and a close now is refused
C22_Witness ==
  /\ CurrentRoundActive(auction)
  /\ LET round == auction.rounds[auction.currentRound]
     IN /\ round.endTime > round.startTime + auction.roundDuration * SecMs
        /\ now >= round.startTime + auction.roundDuration * SecMs
        /\ now < round.endTime
        /\ RoundBids(auction.bids, auction.currentRound) # <<>>
  /\ completeRound(auction, users, journal, now).err = "Round has not ended yet"

-----------------------------------------------------------------------------
(* C23 *)

\* every planned round of the auction has been closed
AllPlannedRoundsClosed(a) ==
  \A r \in 1..PlannedRounds :
    r \in DOMAIN a.rounds /\ a.rounds[r].status = "completed"

\* C23: activeAuctions classifies correctly.  An auction is returned exactly
\* when its status is active and its current round is active, unless all items
\* have been awarded; it is marked completed only when all items have been
\* awarded or every planned round has been closed.  So an auction whose last
\* planned round is open is returned and stays active.
C23_ActiveAuctions ==
  LET out == getActiveAuctions(auction)
  IN /\ out.returned = 1 => auction.status = "active" /\ CurrentRoundActive(auction)
     /\ (/\ auction.status = "active"
         /\ CurrentRoundActive(auction)
         /\ TotalWinners(auction.rounds) < auction.totalItems) =>
          /\ out.returned = 1
          /\ out.auction = auction
     /\ out.auction # auction =>
          /\ out.auction = [auction EXCEPT !.status = "completed"]
          /\ \/ TotalWinners(auction.rounds) >= auction.totalItems
             \/ AllPlannedRoundsClosed(auction)

-----------------------------------------------------------------------------
(* C24 *)

\* the bidder's 0-based index on the leaderboard of the round the bid went to
BidderIndex(a, userId) ==
  IndexOfUser(Leaderboard(a.bids, a.currentRound), userId) - 1

\* C24: the value of the anti-sniping extension.  When a bid is admitted with
\* endTime - now <= antiSnipingWindow and the bidder's leaderboard index, the
\* new bid counted, is below winningSlots, the round's endTime after the bid is
\* min(now + antiSnipingWindow, startTime + 2 * roundDuration).
C24_ExtensionValue ==
  \A u \in UserIds, amt \in SnipeAmounts :
    LET out == placeBid(auction, users, journal, now, u, amt, "none")
        r == auction.currentRound
    IN (/\ out.err = "none"
        /\ auction.rounds[r].endTime - now <= auction.antiSnipingWindow * SecMs
        /\ BidderIndex(out.auction, u) < auction.rounds[r].winningSlots) =>
         out.auction.rounds[r].endTime =
           Min(now + auction.antiSnipingWindow * SecMs,
               auction.rounds[r].startTime + 2 * auction.roundDuration * SecMs)

-----------------------------------------------------------------------------
(* C25 *)

\* C25: anti-sniping gating.  An admitted bid leaves the round's endTime
\* unchanged whenever endTime - now > antiSnipingWindow, or the bidder's best
\* bid is at an index >= winningSlots on the leaderboard that includes the new
\* bid.
C25_Gating ==
  \A u \in UserIds, amt \in SnipeAmounts :
    LET out == placeBid(auction, users, journal, now, u, amt, "none")
        r == auction.currentRound
    IN (/\ out.err = "none"
        /\ \/ auction.rounds[r].endTime - now > auction.antiSnipingWindow * SecMs
           \/ BidderIndex(out.auction, u) >= auction.rounds[r].winningSlots) =>
         out.auction.rounds[r].endTime = auction.rounds[r].endTime

\* scenario S4: with one slot, a bid below the leader's was admitted 1 s before
\* the end of the round, inside the window, and the round still ends at 10 s
C25_Witness ==
  /\ CurrentRoundActive(auction)
  /\ auction.rounds[1].winningSlots = 1
  /\ auction.rounds[1].endTime = 10 * SecMs
  /\ Len(auction.bids) = 2
  /\ auction.bids[1].userId # auction.bids[2].userId
  /\ auction.bids[2].amount < auction.bids[1].amount
  /\ auction.bids[2].timestamp = 9 * SecMs
  /\ auction.rounds[1].endTime - auction.bids[2].timestamp
       <= auction.antiSnipingWindow * SecMs

-----------------------------------------------------------------------------
(* C26 *)

\* the auction was created from the CreateAuctionDto `data`
CreatedFrom(a, data) ==
  /\ a.status # "none"
  /\ \A f \in {"totalItems", "itemsPerRound", "winnersPerRound", "roundDuration",
                "minBid"} : a[f] = data[f]

\* C26: a zero anti-sniping window is honoured.  An auction created with
\* antiSnipingWindow = 0 stores the window as 0, and every one of its rounds
\* ends exactly roundDuration after it starts, whatever bids are admitted.
C26_ZeroWindow ==
  \A data \in Dtos :
    (data.antiSnipingWindow = 0 /\ CreatedFrom(auction, data)) =>
      /\ auction.antiSnipingWindow = 0
      /\ \A r \in DOMAIN auction.rounds :
           auction.rounds[r].endTime =
             auction.rounds[r].startTime + auction.roundDuration * SecMs

-----------------------------------------------------------------------------
(* C27 *)

\* the sum of the amounts of the user's Bid records of round r, carried copies
\* included
RoundStake(bids, r, userId) ==
  SumAmounts(SelectSeq(bids, LAMBDA b : b.roundNumber = r /\ b.userId = userId))

\* C27: the winner pays exactly the winning bid.  A close credits every winner
\* of the round with the amounts of all the winner's Bid records of that round
\* but the winning one (carried copies and records of the winning amount
\* included), each with a 'refund' transaction: what stays debited for the
\* round is bidAmount.
C27_WinnerPays ==
  LET out == completeRound(auction, users, journal, now)
      r == auction.currentRound
  IN out.err = "none" =>
       \A i \in DOMAIN out.auction.rounds[r].winners :
         LET w == out.auction.rounds[r].winners[i]
             credit == RoundStake(auction.bids, r, w.userId) - w.bidAmount
         IN /\ out.users[w.userId] - users[w.userId] = credit
            /\ TxTotal(out.journal, w.userId, "refund")
                 - TxTotal(journal, w.userId, "refund") = credit

-----------------------------------------------------------------------------
(* C28 *)

\* C28: the ledger's adjust is atomic per call.  No balance is ever negative, a
\* debit of more than the balance fails and leaves the balances unchanged, and
\* once the requests have returned every balance is the initial balance plus
\* the credits (deposits, refunds) minus the debits (bids) that succeeded: no
\* adjustment is lost when two of them overlap.
C28_AtomicAdjust ==
  /\ \A u \in DOMAIN users :
       /\ users[u] >= 0
       /\ \A amt \in OverlapAmounts :
            users[u] < amt =>
              LET res == updateBalance(users, u, amt, "subtract")
              IN ~res.ok /\ res.users = users
  /\ (\A c \in CallIds : calls[c] = Idle) =>
       \A u \in DOMAIN users :
         users[u] = InitialBalance + TxTotal(journal, u, "deposit")
                      + TxTotal(journal, u, "refund") - TxTotal(journal, u, "bid")

-----------------------------------------------------------------------------
(* C29 *)

Range(s) == {s[k] : k \in DOMAIN s}

\* C29: scheduler failure isolation and retry.  Within one run of the round
\* processor, completeRound is called for every active auction it found whose
\* current round had ended, whether or not the call for another auction threw;
\* and an auction whose call threw is attempted again in the next run.
C29_IsolationAndRetry ==
  fleet.pc = "loop" =>
    \A i \in DOMAIN fleet.found :
      i \notin Range(fleet.queue) =>
        /\ RoundExpired(fleet.found[i], fleet.t0) => i \in fleet.attempted
        /\ i \in fleet.retry => i \in fleet.attempted

\* a run of the processor is over: completeRound threw for the first auction,
\* as it had in the run before, and closed a round of the second
C29_Witness ==
  /\ fleet.pc = "loop"
  /\ fleet.queue = <<>>
  /\ 1 \in fleet.retry
  /\ 1 \in fleet.failed
  /\ 2 \in fleet.attempted \ fleet.failed
  /\ fleet.auctions[2].rounds[1].status = "completed"
  /\ fleet.found[2].rounds[1].status = "active"

-----------------------------------------------------------------------------
(* C30 *)

\* winnersPerRound[k - 1] of the plan: the array given, or itemsPerRound for
\* every round but the last and the remainder for the last
PlannedSlots(k) ==
  IF auction.winnersPerRound # <<>> THEN auction.winnersPerRound[k]
  ELSE IF k < PlannedRounds THEN auction.itemsPerRound
  ELSE auction.totalItems - (PlannedRounds - 1) * auction.itemsPerRound

\* C30: advance or finalize.  A close of round r completes it and opens round
\* r + 1 (active, from now for roundDuration, with the planned number of slots,
\* currentRound = r + 1) if and only if the winners of all rounds are fewer than
\* totalItems and r is below the number of planned rounds; otherwise it appends
\* no round and the auction becomes completed.
C30_AdvanceOrFinalize ==
  LET out == completeRound(auction, users, journal, now)
      r == auction.currentRound
  IN out.err = "none" =>
       LET advance == /\ TotalWinners(out.auction.rounds) < auction.totalItems
                      /\ r < PlannedRounds
       IN /\ out.auction.rounds[r].status = "completed"
          /\ SubSeq(out.auction.rounds, 1, r - 1) = SubSeq(auction.rounds, 1, r - 1)
          /\ advance =>
               /\ out.auction.status = "active"
               /\ out.auction.currentRound = r + 1
               /\ Len(out.auction.rounds) = r + 1
               /\ out.auction.rounds[r + 1] =
                    [roundNumber |-> r + 1, status |-> "active", startTime |-> now,
                     endTime |-> now + auction.roundDuration * SecMs,
                     winningSlots |-> PlannedSlots(r + 1), winners |-> <<>>,
                     totalBids |-> out.auction.rounds[r + 1].totalBids]
          /\ ~advance =>
               /\ out.auction.status = "completed"
               /\ out.auction.currentRound = r
               /\ Len(out.auction.rounds) = Len(auction.rounds)

\* a close has opened round 2 of two planned rounds after round 1 had one
\* winner; round 2, the last, has now expired with items still not awarded, and
\* the close finalizes the auction
C30_Witness ==
  /\ auction.status = "active"
  /\ PlannedRounds = 2
  /\ auction.currentRound = 2
  /\ auction.rounds[2].startTime > 0
  /\ Len(auction.rounds[1].winners) = 1
  /\ TotalWinners(auction.rounds) < auction.totalItems
  /\ completeRound(auction, users, journal, now).auction.status = "completed"

-----------------------------------------------------------------------------
(* C31 *)

\* the rounds of `a` that have been closed
ClosuresOf(a) ==
  Cardinality({i \in DOMAIN a.rounds : a.rounds[i].status = "completed"})

-----------------------------------------------------------------------------
(* C32 *)

\* C32: per-user best bid.  For the Bid records of every round, the reduction
\* to one bid per user keeps exactly one bid for every user who bid in the
\* round, and it is the user's bid of the largest amount and, among the user's
\* bids of that amount, of the earliest timestamp (the records of a round being
\* stored as the requests were served: carried-forward copies, then new bids).
C32_PerUserBest ==
  \A r \in DOMAIN auction.rounds :
    LET kept == UserBids(RoundBids(auction.bids, r))
    IN /\ {kept[k].userId : k \in DOMAIN kept} = Bidders(auction.bids, r)
       /\ \A j, k \in DOMAIN kept : j # k => kept[j].userId # kept[k].userId
       /\ \A k \in DOMAIN kept :
            /\ kept[k].amount = BestAmount(auction.bids, r, kept[k].userId)
            /\ kept[k].timestamp = BestTime(auction.bids, r, kept[k].userId)

\* round 2 holds, for one user, a carried-forward copy and a later bid of the
\* same amount, which is the user's largest
C32_Witness ==
  /\ Len(auction.rounds) = 2
  /\ \E j, k \in DOMAIN auction.bids :
       /\ j < k
       /\ auction.bids[j].roundNumber = 2
       /\ auction.bids[k].roundNumber = 2
       /\ auction.bids[j].userId = auction.bids[k].userId
       /\ auction.bids[j].amount = auction.bids[k].amount
       /\ auction.bids[j].timestamp < auction.rounds[2].startTime
       /\ auction.bids[k].timestamp >= auction.rounds[2].startTime
       /\ auction.bids[j].amount
            = BestAmount(auction.bids, 2, auction.bids[j].userId)

-----------------------------------------------------------------------------
(* C33 *)

\* the bid (userId, amount) placed now becomes the user's leaderboard entry of
\* the current round: the user has no record in the round, or none as large
BecomesEntry(a, userId, amount) ==
  \A k \in DOMAIN a.bids :
    (a.bids[k].roundNumber = a.currentRound /\ a.bids[k].userId = userId)
      => a.bids[k].amount < amount

\* C33: only a new top-K bid extends.  placeBid changes the round's endTime
\* only if the bid placed is itself the bidder's leaderboard entry and that
\* entry is among the first winningSlots; a bid that is not above the same
\* user's best bid of the round never extends the round.
C33_OnlyNewTopBid ==
  \A u \in UserIds, amt \in SnipeAmounts :
    LET out == placeBid(auction, users, journal, now, u, amt, "none")
        r == auction.currentRound
    IN (out.err = "none"
        /\ out.auction.rounds[r].endTime # auction.rounds[r].endTime) =>
         /\ BecomesEntry(auction, u, amt)
         /\ BidderIndex(out.auction, u) < auction.rounds[r].winningSlots

-----------------------------------------------------------------------------
(* C34 *)

\* C34: round bid counter.  For every round r, round.totalBids is the number of
\* Bid records of auction.bids with roundNumber r: bids admitted to the round
\* and copies carried forward into it.
C34_RoundBidCounter ==
  \A r \in DOMAIN auction.rounds :
    auction.rounds[r].totalBids = NumBidsOfRound(auction.bids, r)

-----------------------------------------------------------------------------
(* C35 *)

\* C35: round deadlines only move forward.  An admitted bid never decreases the
\* endTime of the round; when it changes endTime, the new value is at least the
\* old one and later than now.  No other field of the round's timing changes.
C35_DeadlineForward ==
  \A u \in UserIds, amt \in SnipeAmounts :
    LET out == placeBid(auction, users, journal, now, u, amt, "none")
        r == auction.currentRound
    IN out.err = "none" =>
         /\ out.auction.rounds[r].endTime >= auction.rounds[r].endTime
         /\ out.auction.rounds[r].startTime = auction.rounds[r].startTime
         /\ out.auction.rounds[r].endTime # auction.rounds[r].endTime =>
              out.auction.rounds[r].endTime > now

\* the round is open past its nominal end because a bid extended it, and a bid
\* can still be admitted
C35_Witness ==
  /\ CurrentRoundActive(auction)
  /\ LET round == auction.rounds[auction.currentRound]
     IN /\ round.endTime > round.startTime + auction.roundDuration * SecMs
        /\ now > round.startTime + auction.roundDuration * SecMs
        /\ \E k \in DOMAIN auction.bids :
             auction.bids[k].timestamp + auction.antiSnipingWindow * SecMs
               = round.endTime
  /\ \E u \in UserIds, amt \in SnipeAmounts :
       placeBid(auction, users, journal, now, u, amt, "none").err = "none"

-----------------------------------------------------------------------------
(* C36 *)

\* what the journal says the user's balance is
JournalBalance(jr, u) ==
  InitialBalance + TxTotal(jr, u, "deposit") - TxTotal(jr, u, "bid")
    + TxTotal(jr, u, "refund")

\* the number of the user's transactions
NumUserTx(jr, u) == SumBag(jr, {tx \in BagToSet(jr) : tx.userId = u})

\* C36: the journal matches the balance.  In every state, every user's balance
\* is the initial balance plus the 'deposit' transactions minus the 'bid'
\* transactions plus the 'refund' transactions; and in every step the journal
\* only grows, a user's balance changes only if a transaction of the user is
\* written, and every transaction written changes its user's balance by its
\* amount.
C36_JournalMatchesBalance ==
  /\ [](\A u \in DOMAIN users : users[u] = JournalBalance(journal, u))
  /\ [][ /\ \A tx \in BagToSet(journal) : CopiesIn(tx, journal') >= CopiesIn(tx, journal)
         /\ \A u \in DOMAIN users' :
              LET before == IF u \in DOMAIN users THEN users[u] ELSE InitialBalance
              IN /\ users'[u] - before
                      = JournalBalance(journal', u) - JournalBalance(journal, u)
                 /\ users'[u] # before
                      => NumUserTx(journal', u) > NumUserTx(journal, u)
                 /\ NumUserTx(journal', u) > NumUserTx(journal, u)
                      => users'[u] # before
       ]_vars

\* a user has deposited, has bid twice and has been refunded the lower bid
C36_Witness ==
  \E u \in DOMAIN users :
    /\ TxTotal(journal, u, "deposit") > 0
    /\ TxTotal(journal, u, "bid") > TxTotal(journal, u, "refund")
    /\ TxTotal(journal, u, "refund") > 0
    /\ users[u] # InitialBalance

-----------------------------------------------------------------------------
(* C37 *)

\* the call leaves the auction, the balances and the journal as they are
LeavesAll(out) ==
  /\ out.auction = auction
  /\ out.users = users
  /\ out.journal = journal

\* C37: a completed auction is frozen.  When the auction is completed none of
\* its rounds is active, and placeBid, completeRound, startAuction and
\* getActiveAuctions change neither the auction (status, rounds, winners, bids)
\* nor any balance nor the journal.
C37_CompletedFrozen ==
  auction.status = "completed" =>
    /\ ~HasActiveRound(auction)
    /\ \A u \in UserIds, amt \in Amounts :
         LeavesAll(placeBid(auction, users, journal, now, u, amt, "none"))
    /\ LeavesAll(completeRound(auction, users, journal, now))
    /\ LeavesAll(startAuction(auction, users, journal, now))
    /\ getActiveAuctions(auction).auction = auction

-----------------------------------------------------------------------------
(* C38 *)

\* what the user has paid in bids and has neither been credited back nor owes
\* as the price of a winner entry
Escrow(u) ==
  IF u \in DOMAIN users
  THEN TxTotal(journal, u, "bid") - TxTotal(journal, u, "refund")
         - WinningTotal(auction.rounds, u)
  ELSE 0

\* C38: escrow is eventually settled.  With the round processor and the clock
\* running, and whatever read-side calls come in between, every amount debited
\* for a bid eventually is the price of a winner entry or has been credited
\* back: no user's debit stays in escrow for ever.
C38_EscrowSettled ==
  \A u \in UserIds : (Escrow(u) > 0) ~> (Escrow(u) = 0)

-----------------------------------------------------------------------------
(* C39 *)

\* the Bid records a 'refund' transaction can be the refund of
RefundedRecords(a, tx) ==
  SelectSeq(a.bids, LAMBDA bid : /\ bid.userId = tx.userId
                                 /\ bid.amount = tx.amount
                                 /\ bid.roundNumber = tx.roundNumber)

\* C39: a retried close does not pay twice.  When a close has failed part-way,
\* after crediting refunds and before saving the auction, and the next tick has
\* closed the round, every Bid record has been credited at most once, as after
\* a single close: the journal holds no more 'refund' transactions for a bid
\* than there are records of that bid.
C39_NoDoublePay ==
  \A tx \in TxOfType(journal, "refund") :
    (/\ tx.roundNumber \in DOMAIN auction.rounds
     /\ auction.rounds[tx.roundNumber].status = "completed") =>
      CopiesIn(tx, journal) <= Len(RefundedRecords(auction, tx))

-----------------------------------------------------------------------------
(* C40 *)

\* the active auction respects its plan: no more rounds than planned, the
\* current round within the plan, items still to be awarded
RespectsPlan(a) ==
  /\ a.status = "active"
  /\ Len(a.rounds) <= PlannedRounds
  /\ a.currentRound <= PlannedRounds
  /\ TotalWinners(a.rounds) < a.totalItems

\* C40: fixProblematicAuctions leaves healthy auctions alone.  For an active
\* auction that respects its plan, the call changes neither the status nor the
\* rounds nor currentRound (nor anything else of the auction), and counts no
\* auction as fixed.
C40_FixLeavesHealthy ==
  RespectsPlan(auction) =>
    /\ fixProblematicAuctions(auction, now).auction = auction
    /\ fixProblematicAuctions(auction, now).fixed = 0

====
